---------------------------- MODULE Spec2Model ----------------------------
(***************************************************************************)
(* A model of the e2ee-chat relay (src/unnamed/part_000, the WebSocket     *)
(* server) and of its browser client (src/src/public/ts/script.ts).        *)
(*                                                                         *)
(* Connections 1..NumBrowsers are pages running script.ts.  Connection     *)
(* RawConn is a peer that speaks the wire protocol directly: it may send   *)
(* any payload, well formed or not, and it owns a key pair of its own.     *)
(*                                                                         *)
(* One action of the model is one run of a callback of the code from the   *)
(* point it is entered (or resumed after an await) to its next await or    *)
(* its end.  Two awaits in a row are one step where the code between them  *)
(* reads nothing another callback can write (importPublicKey followed by   *)
(* deriveSharedKey: myECDHKeyPair is assigned once and never changed).     *)
(*                                                                         *)
(* The transport is the ws library, which is not part of the repository:   *)
(* a connection is a pair of FIFO queues, and a close drops what is still  *)
(* queued either way.  The relay's "close" callback and the page going     *)
(* away are one step: between the two the page could only stay idle.       *)
(***************************************************************************)
EXTENDS Integers, Sequences, FiniteSets, Bags, TLC

(***************************************************************************)
(* Bounds of the model.                                                    *)
(***************************************************************************)
NumBrowsers == 2    \* pages running script.ts
NumIds      == 2    \* size of the session id space (900000 in the code)
NumTexts    == 1    \* distinct non-empty texts a user may type
NumIvs      == 1    \* distinct initialization vectors getRandomValues may draw
MaxQueue    == 2    \* messages in flight per direction of a connection
MaxEvents   == 2    \* user edits, user clicks and raw payloads, over all peers

Browsers == 1..NumBrowsers
RawConn  == NumBrowsers + 1
Conns    == 1..(NumBrowsers + 1)
Ids      == 1..NumIds
Texts    == 1..NumTexts
Ivs      == 1..NumIvs

\* messageInput.value of an empty input field: falsy in `!msg`
EmptyText == 0
\* the closure variable sessionId of a connection that is not accepted
NoId == 0

VARIABLES
    clients,        \* the relay's Map<string, Client>
    sock,           \* per connection: "idle" (not yet accepted), "open", "closed"
    connId,         \* per connection: the closure constant sessionId of its callbacks
    toServer,       \* per connection: payloads sent by the peer, not yet handled
    toClient,       \* per connection: payloads sent by the relay, not yet handled
    sessionId,      \* per page: script.ts `sessionId`
    myECDHKeyPair,  \* per page: script.ts `myECDHKeyPair`
    peers,          \* per page: script.ts `peers`
    messageInput,   \* per page: the text in the message input field
    pending,        \* per page: the bag of callbacks suspended at an await
    messages,       \* per page: the inbound lines appended to the messages list
    events,         \* number of user edits, user clicks and raw payloads so far
    closedIds,      \* history: the session ids of the connections closed so far
    clicked,        \* history, per page and id: send clicks made for that recipient
    sent            \* history, per page and id: forward-messages sent to that recipient

vars == <<clients, sock, connId, toServer, toClient, sessionId, myECDHKeyPair,
          peers, messageInput, pending, messages, events, closedIds, clicked, sent>>

relayVars == <<clients, sock, connId>>
pageVars  == <<sessionId, myECDHKeyPair, peers, messageInput, pending, messages>>

(***************************************************************************)
(* Values.                                                                 *)
(***************************************************************************)
\* an absent optional (publicKey?, senderPublicKey?, a null variable)
Undefined == [undefined |-> TRUE]

\* the key pair crypto.subtle.generateKey draws for the owner of connection c:
\* pairs of different owners differ
PublicKeyOf(c)  == [type |-> "public", of |-> c]
PrivateKeyOf(c) == [type |-> "private", of |-> c]

generateECDHKeyPair(c) ==
    [publicKey |-> PublicKeyOf(c), privateKey |-> PrivateKeyOf(c)]

\* base64 of the raw bytes of a key
exportPublicKey(key) == [b64 |-> <<key.type, key.of>>]

\* a string that is no base64 of a P-256 point
Malformed == [b64 |-> <<"garbage", 0>>]

\* the strings that encode a public key
PublicKeyStrings == {exportPublicKey(PublicKeyOf(c)) : c \in Conns}

\* ImportOK that accepts every string
ImportOK_AnyString(base64Key) == "b64" \in DOMAIN base64Key

\* importPublicKey throws (atob or importKey) unless the string encodes a point
ImportOK(base64Key) == base64Key \in PublicKeyStrings

importPublicKey(base64Key) == [type |-> "public", of |-> base64Key.b64[2]]

\* ECDH: a * (b * G) = b * (a * G), so the secret is the unordered pair
deriveSharedKey(privateKey, publicKey) ==
    [type |-> "secret", agreed |-> {privateKey.of, publicKey.of}]

\* AES-GCM: the ciphertext bytes are determined by key, iv and plaintext
encryptWithKey(key, plaintext, iv) ==
    [iv |-> iv, data |-> [k |-> key, n |-> iv, p |-> plaintext]]

\* bytes that are the output of no encryption
CorruptData == [k |-> Undefined, n |-> 0, p |-> 0]

\* the authentication tag verifies: same key, same iv, untouched data
DecryptOK(key, encrypted) ==
    /\ encrypted.data.k = key
    /\ encrypted.data.n = encrypted.iv

decryptWithKey(key, encrypted) == encrypted.data.p

(***************************************************************************)
(* Helpers on Maps and queues.                                             *)
(***************************************************************************)
MapSet(map, key, value) == [k \in DOMAIN map \cup {key} |->
                               IF k = key THEN value ELSE map[k]]
MapDelete(map, key) == [k \in DOMAIN map \ {key} |-> map[k]]
EmptyMap == [k \in {} |-> Undefined]

Push(queue, c, msg) == [queue EXCEPT ![c] = Append(@, msg)]
Pop(queue, c)       == [queue EXCEPT ![c] = Tail(@)]
HasRoom(queue, c)   == Len(queue[c]) < MaxQueue

(***************************************************************************)
(* The state after construction: no connection accepted, no page loaded.   *)
(***************************************************************************)
Init ==
    /\ clients = EmptyMap
    /\ sock = [c \in Conns |-> "idle"]
    /\ connId = [c \in Conns |-> NoId]
    /\ toServer = [c \in Conns |-> <<>>]
    /\ toClient = [c \in Conns |-> <<>>]
    /\ sessionId = [b \in Browsers |-> NoId]
    /\ myECDHKeyPair = [b \in Browsers |-> Undefined]
    /\ peers = [b \in Browsers |-> EmptyMap]
    /\ messageInput = [b \in Browsers |-> EmptyText]
    /\ pending = [b \in Browsers |-> EmptyBag]
    /\ messages = [b \in Browsers |-> {}]
    /\ events = 0
    /\ closedIds = {}
    /\ clicked = [b \in Browsers |-> [id \in Ids |-> 0]]
    /\ sent = [b \in Browsers |-> [id \in Ids |-> 0]]

(***************************************************************************)
(* The relay.                                                              *)
(***************************************************************************)
\* Math.floor(100000 + Math.random() * 900000): any id of the space, with no
\* look at the ids in use
generateSessionId == Ids

\* InitMessage that announces another id than the registered one
InitMessage_OtherId(id) == [type |-> "init", sessionId |-> (id % NumIds) + 1]

\* const initMsg: OutgoingMessage = { type: "init", sessionId }
InitMessage(id) == [type |-> "init", sessionId |-> id]

\* wss.on("connection")
Connection(c) ==
    /\ sock[c] = "idle"
    /\ \E id \in generateSessionId :
        /\ clients' = MapSet(clients, id,
                             [id |-> id, socket |-> c, publicKey |-> Undefined])
        /\ connId' = [connId EXCEPT ![c] = id]
        /\ toClient' = Push(toClient, c, InitMessage(id))
    /\ sock' = [sock EXCEPT ![c] = "open"]
    /\ UNCHANGED <<toServer, pageVars, events, closedIds, clicked, sent>>

\* a payload is waiting on open connection c
Receiving(c) == sock[c] = "open" /\ toServer[c] # <<>>

\* JSON.parse succeeds
IsJson(data) == "type" \in DOMAIN data

\* StorePublicKey that keeps a key that is already stored
StorePublicKey_KeepFirst(id, key) ==
    IF id \in DOMAIN clients /\ clients[id].publicKey = Undefined
    THEN [clients EXCEPT ![id].publicKey = key]
    ELSE clients

\* case "publicKey": clients.get(sessionId)!.publicKey = parsed.key;
\* a missing entry makes the assignment throw into the catch
StorePublicKey(id, key) ==
    IF id \in DOMAIN clients
    THEN [clients EXCEPT ![id].publicKey = key]
    ELSE clients

RelayPublicKey(c) ==
    /\ Receiving(c)
    /\ LET parsed == Head(toServer[c]) IN
        /\ IsJson(parsed) /\ parsed.type = "publicKey"
        /\ clients' = StorePublicKey(connId[c], parsed.key)
    /\ toServer' = Pop(toServer, c)
    /\ UNCHANGED <<sock, connId, toClient, pageVars, events, closedIds, clicked, sent>>

\* HasPublicKey that tests `recipient` alone
HasPublicKey_AnyClient(id) == id \in DOMAIN clients

\* recipient?.publicKey is truthy
HasPublicKey(id) == id \in DOMAIN clients /\ clients[id].publicKey # Undefined

\* GetPublicKeyReplies that answers with the requester's own stored key
GetPublicKeyReplies_OwnKey(c, parsed) ==
    IF HasPublicKey(parsed.for)
    THEN {<<c, [type |-> "publicKey", for |-> parsed.for,
                key |-> IF connId[c] \in DOMAIN clients
                        THEN clients[connId[c]].publicKey
                        ELSE Undefined]>>}
    ELSE {}

\* case "getPublicKey": the replies, as <<socket, message>> pairs
GetPublicKeyReplies(c, parsed) ==
    IF HasPublicKey(parsed.for)
    THEN {<<c, [type |-> "publicKey", for |-> parsed.for,
                key |-> clients[parsed.for].publicKey]>>}
    ELSE {}

\* clients.get(sessionId)?.publicKey
SenderPublicKey(c) ==
    IF connId[c] \in DOMAIN clients THEN clients[connId[c]].publicKey
    ELSE Undefined

\* ForwardedMessages that attaches the recipient's stored key
ForwardedMessages_RecipientKey(c, parsed) ==
    IF parsed.to \in DOMAIN clients
    THEN {<<clients[parsed.to].socket,
            [type |-> "message", from |-> connId[c],
             ciphertext |-> parsed.ciphertext,
             senderPublicKey |-> clients[parsed.to].publicKey]>>}
    ELSE {}

\* ForwardedMessages that echoes an undeliverable message to its sender
ForwardedMessages_Bounce(c, parsed) ==
    IF parsed.to \in DOMAIN clients
    THEN {<<clients[parsed.to].socket,
            [type |-> "message", from |-> connId[c],
             ciphertext |-> parsed.ciphertext,
             senderPublicKey |-> SenderPublicKey(c)]>>}
    ELSE {<<c, [type |-> "message", from |-> parsed.to,
                ciphertext |-> parsed.ciphertext,
                senderPublicKey |-> Undefined]>>}

\* case "message": the forwards, as <<socket, message>> pairs
ForwardedMessages(c, parsed) ==
    IF parsed.to \in DOMAIN clients
    THEN {<<clients[parsed.to].socket,
            [type |-> "message", from |-> connId[c],
             ciphertext |-> parsed.ciphertext,
             senderPublicKey |-> SenderPublicKey(c)]>>}
    ELSE {}

\* socket.send of every pair of `out` (at most one)
SendAll(out) ==
    /\ \A o \in out : HasRoom(toClient, o[1])
    /\ toClient' = [d \in Conns |->
                      IF \E o \in out : o[1] = d
                      THEN Append(toClient[d], (CHOOSE o \in out : o[1] = d)[2])
                      ELSE toClient[d]]

RelayGetPublicKey(c) ==
    /\ Receiving(c)
    /\ LET parsed == Head(toServer[c]) IN
        /\ IsJson(parsed) /\ parsed.type = "getPublicKey"
        /\ SendAll(GetPublicKeyReplies(c, parsed))
    /\ toServer' = Pop(toServer, c)
    /\ UNCHANGED <<relayVars, pageVars, events, closedIds, clicked, sent>>

RelayForward(c) ==
    /\ Receiving(c)
    /\ LET parsed == Head(toServer[c]) IN
        /\ IsJson(parsed) /\ parsed.type = "message"
        /\ SendAll(ForwardedMessages(c, parsed))
    /\ toServer' = Pop(toServer, c)
    /\ UNCHANGED <<relayVars, pageVars, events, closedIds, clicked, sent>>

KnownTypes == {"publicKey", "getPublicKey", "message"}

\* JSON.parse throws, or the switch reaches its default branch
Unhandled(data) == IF IsJson(data) THEN data.type \notin KnownTypes ELSE TRUE

\* IgnoredClients that drops the session of the offending connection
IgnoredClients_Drop(c, data) == MapDelete(clients, connId[c])

\* what the default branch and the catch do to the Map
IgnoredClients(c, data) == clients

\* default: console.warn; catch (err): console.error
RelayIgnore(c) ==
    /\ Receiving(c)
    /\ LET data == Head(toServer[c]) IN
        /\ Unhandled(data)
        /\ clients' = IgnoredClients(c, data)
    /\ toServer' = Pop(toServer, c)
    /\ UNCHANGED <<sock, connId, toClient, pageVars, events, closedIds, clicked, sent>>

\* ClosedClients that leaves the session in the Map
ClosedClients_Keep(c) == clients

\* the Map after ws.on("close"): clients.delete(sessionId)
ClosedClients(c) == MapDelete(clients, connId[c])

\* ws.on("close"), and the page (if any) going away with its state
Close(c) ==
    /\ sock[c] = "open"
    /\ clients' = ClosedClients(c)
    /\ sock' = [sock EXCEPT ![c] = "closed"]
    /\ connId' = [connId EXCEPT ![c] = NoId]
    /\ toServer' = [toServer EXCEPT ![c] = <<>>]
    /\ toClient' = [toClient EXCEPT ![c] = <<>>]
    /\ IF c \in Browsers
       THEN /\ sessionId' = [sessionId EXCEPT ![c] = NoId]
            /\ myECDHKeyPair' = [myECDHKeyPair EXCEPT ![c] = Undefined]
            /\ peers' = [peers EXCEPT ![c] = EmptyMap]
            /\ messageInput' = [messageInput EXCEPT ![c] = EmptyText]
            /\ pending' = [pending EXCEPT ![c] = EmptyBag]
            /\ messages' = [messages EXCEPT ![c] = {}]
       ELSE UNCHANGED pageVars
    /\ closedIds' = closedIds \cup {connId[c]}
    /\ clicked' = [b \in Browsers |->
                     IF b = c THEN [id \in Ids |-> 0] ELSE clicked[b]]
    /\ sent' = [b \in Browsers |->
                  IF b = c THEN [id \in Ids |-> 0] ELSE sent[b]]
    /\ UNCHANGED events

(***************************************************************************)
(* The page: script.ts.                                                    *)
(***************************************************************************)
\* a message is waiting for ws.onmessage of page b
Delivered(b) == sock[b] = "open" /\ toClient[b] # <<>>

Suspend(b, task) == pending[b] (+) SetToBag({task})
Resumed(b, task) == pending[b] (-) SetToBag({task})
Suspended(b)     == BagToSet(pending[b])

\* PeerEntry with the agreement run against the page's own public key
PeerEntry_OwnKey(b, base64Key) ==
    [publicKey |-> importPublicKey(base64Key),
     sharedKey |-> deriveSharedKey(myECDHKeyPair[b].privateKey,
                                   myECDHKeyPair[b].publicKey)]

\* the Peer entry both branches of ws.onmessage store for an imported key
PeerEntry(b, base64Key) ==
    [publicKey |-> importPublicKey(base64Key),
     sharedKey |-> deriveSharedKey(myECDHKeyPair[b].privateKey,
                                   importPublicKey(base64Key))]

\* msg.type === "init", up to `await generateECDHKeyPair()`
OnInit(b) ==
    /\ Delivered(b)
    /\ LET msg == Head(toClient[b]) IN
        /\ msg.type = "init"
        /\ sessionId' = [sessionId EXCEPT ![b] = msg.sessionId]
        /\ pending' = [pending EXCEPT ![b] = Suspend(b, [k |-> "generateKey"])]
    /\ toClient' = Pop(toClient, b)
    /\ UNCHANGED <<relayVars, toServer, myECDHKeyPair, peers, messageInput,
                   messages, events, closedIds, clicked, sent>>

\* generateECDHKeyPair resolved: myECDHKeyPair is assigned, then
\* `await exportPublicKey(myECDHKeyPair.publicKey)`
ResumeGenerateKey(b) ==
    /\ [k |-> "generateKey"] \in Suspended(b)
    /\ myECDHKeyPair' = [myECDHKeyPair EXCEPT ![b] = generateECDHKeyPair(b)]
    /\ pending' = [pending EXCEPT ![b] =
                     Resumed(b, [k |-> "generateKey"]) (+)
                     SetToBag({[k |-> "exportKey",
                                key |-> generateECDHKeyPair(b).publicKey]})]
    /\ UNCHANGED <<relayVars, toServer, toClient, sessionId, peers,
                   messageInput, messages, events, closedIds, clicked, sent>>

\* PublishedKey that exports the private half of the pair
PublishedKey_Private(key) ==
    [type |-> "publicKey", key |-> exportPublicKey(PrivateKeyOf(key.of))]

\* the payload the init branch publishes
PublishedKey(key) == [type |-> "publicKey", key |-> exportPublicKey(key)]

\* exportPublicKey resolved: ws.send({type: "publicKey", key: pubKey})
ResumeExportKey(b) ==
    /\ \E task \in Suspended(b) :
        /\ task.k = "exportKey"
        /\ HasRoom(toServer, b)
        /\ toServer' = Push(toServer, b, PublishedKey(task.key))
        /\ pending' = [pending EXCEPT ![b] = Resumed(b, task)]
    /\ UNCHANGED <<relayVars, toClient, sessionId, myECDHKeyPair, peers,
                   messageInput, messages, events, closedIds, clicked, sent>>

\* msg.type === "publicKey" && myECDHKeyPair, up to `await importPublicKey`
OnPublicKey(b) ==
    /\ Delivered(b)
    /\ LET msg == Head(toClient[b]) IN
        /\ msg.type = "publicKey"
        /\ pending' = [pending EXCEPT ![b] =
                         IF myECDHKeyPair[b] # Undefined
                         THEN Suspend(b, [k |-> "derivePeer", for |-> msg.for,
                                          key |-> msg.key])
                         ELSE @]
    /\ toClient' = Pop(toClient, b)
    /\ UNCHANGED <<relayVars, toServer, sessionId, myECDHKeyPair, peers,
                   messageInput, messages, events, closedIds, clicked, sent>>

\* sendMessage that starts the encryption and the send twice
sendMessage_Twice(b, recipientId, map, bag) ==
    IF recipientId \notin DOMAIN map \/ messageInput[b] = EmptyText
    THEN pending' = [pending EXCEPT ![b] = bag]
    ELSE \E iv \in Ivs :
            LET task == [k |-> "send", to |-> recipientId,
                         ciphertext |-> encryptWithKey(map[recipientId].sharedKey,
                                                       messageInput[b], iv)]
            IN  pending' = [pending EXCEPT ![b] =
                              bag (+) SetToBag({task}) (+) SetToBag({task})]

\* sendMessage(recipientId) up to `await crypto.subtle.encrypt`, run against
\* the Map `map` with the suspended callbacks `bag`; the iv is drawn before
\* the await
sendMessage(b, recipientId, map, bag) ==
    IF recipientId \notin DOMAIN map \/ messageInput[b] = EmptyText
    THEN pending' = [pending EXCEPT ![b] = bag]
    ELSE \E iv \in Ivs :
            pending' = [pending EXCEPT ![b] = bag (+) SetToBag({
                [k |-> "send", to |-> recipientId,
                 ciphertext |-> encryptWithKey(map[recipientId].sharedKey,
                                               messageInput[b], iv)]})]

\* importPublicKey and deriveSharedKey resolved in the publicKey branch:
\* peers.set(peerId, ...); sendMessage(peerId).  A rejected import ends the
\* callback.
ResumeDerivePeer(b) ==
    /\ \E task \in Suspended(b) :
        /\ task.k = "derivePeer"
        /\ IF ImportOK(task.key)
           THEN /\ peers' = [peers EXCEPT ![b] =
                               MapSet(@, task.for, PeerEntry(b, task.key))]
                /\ sendMessage(b, task.for,
                               MapSet(peers[b], task.for, PeerEntry(b, task.key)),
                               Resumed(b, task))
           ELSE /\ pending' = [pending EXCEPT ![b] = Resumed(b, task)]
                /\ UNCHANGED peers
    /\ UNCHANGED <<relayVars, toServer, toClient, sessionId, myECDHKeyPair,
                   messageInput, messages, events, closedIds, clicked, sent>>

\* the callback the message branch suspends: derive first when the sender is
\* unknown and the key pair exists; else decrypt at once, and
\* `peers.get(senderId)!.sharedKey` throws when there is no entry
AfterMessage(b, msg) ==
    IF msg.from \notin DOMAIN peers[b] /\ myECDHKeyPair[b] # Undefined
    THEN {[k |-> "deriveSender", from |-> msg.from,
           key |-> msg.senderPublicKey, ciphertext |-> msg.ciphertext]}
    ELSE IF msg.from \in DOMAIN peers[b]
         THEN {[k |-> "decrypt", from |-> msg.from,
                key |-> peers[b][msg.from].sharedKey,
                ciphertext |-> msg.ciphertext]}
         ELSE {}

\* msg.type === "message", up to its first await
OnMessage(b) ==
    /\ Delivered(b)
    /\ LET msg == Head(toClient[b]) IN
        /\ msg.type = "message"
        /\ pending' = [pending EXCEPT ![b] = @ (+) SetToBag(AfterMessage(b, msg))]
    /\ toClient' = Pop(toClient, b)
    /\ UNCHANGED <<relayVars, toServer, sessionId, myECDHKeyPair, peers,
                   messageInput, messages, events, closedIds, clicked, sent>>

\* importPublicKey and deriveSharedKey resolved in the message branch:
\* peers.set(senderId, ...), then decryptWithKey with the entry's key
ResumeDeriveSender(b) ==
    /\ \E task \in Suspended(b) :
        /\ task.k = "deriveSender"
        /\ IF ImportOK(task.key)
           THEN /\ peers' = [peers EXCEPT ![b] =
                               MapSet(@, task.from, PeerEntry(b, task.key))]
                /\ pending' = [pending EXCEPT ![b] =
                                 Resumed(b, task) (+) SetToBag({
                                   [k |-> "decrypt", from |-> task.from,
                                    key |-> PeerEntry(b, task.key).sharedKey,
                                    ciphertext |-> task.ciphertext]})]
           ELSE /\ pending' = [pending EXCEPT ![b] = Resumed(b, task)]
                /\ UNCHANGED peers
    /\ UNCHANGED <<relayVars, toServer, toClient, sessionId, myECDHKeyPair,
                   messageInput, messages, events, closedIds, clicked, sent>>

\* Displayed that shows the decrypted bytes whether or not the tag verified
Displayed_Unchecked(task) ==
    {[from |-> task.from, text |-> decryptWithKey(task.key, task.ciphertext)]}

\* the lines li.textContent = `[${senderId}]: ${plaintext}` adds for a
\* resolved (or rejected) decryptWithKey
Displayed(task) ==
    IF DecryptOK(task.key, task.ciphertext)
    THEN {[from |-> task.from,
           text |-> decryptWithKey(task.key, task.ciphertext)]}
    ELSE {}

\* decryptWithKey settled: display, or end on the rejection
ResumeDecrypt(b) ==
    /\ \E task \in Suspended(b) :
        /\ task.k = "decrypt"
        /\ messages' = [messages EXCEPT ![b] = @ \cup Displayed(task)]
        /\ pending' = [pending EXCEPT ![b] = Resumed(b, task)]
    /\ UNCHANGED <<relayVars, toServer, toClient, sessionId, myECDHKeyPair,
                   peers, messageInput, events, closedIds, clicked, sent>>

\* the payload sendMessage sends
SentMessage(task) ==
    [type |-> "message", to |-> task.to, ciphertext |-> task.ciphertext]

\* encryptWithKey resolved in sendMessage: ws.send({type: "message", ...})
ResumeSend(b) ==
    /\ \E task \in Suspended(b) :
        /\ task.k = "send"
        /\ HasRoom(toServer, b)
        /\ toServer' = Push(toServer, b, SentMessage(task))
        /\ pending' = [pending EXCEPT ![b] = Resumed(b, task)]
        /\ sent' = [sent EXCEPT ![b][task.to] = @ + 1]
    /\ UNCHANGED <<relayVars, toClient, sessionId, myECDHKeyPair, peers,
                   messageInput, messages, events, closedIds, clicked>>

\* the user edits the message input field
UserType(b) ==
    /\ sock[b] = "open"
    /\ events < MaxEvents
    /\ \E text \in Texts \cup {EmptyText} :
        /\ text # messageInput[b]
        /\ messageInput' = [messageInput EXCEPT ![b] = text]
    /\ events' = events + 1
    /\ UNCHANGED <<closedIds, clicked, sent>>
    /\ UNCHANGED <<relayVars, toServer, toClient, sessionId, myECDHKeyPair,
                   peers, pending, messages>>

\* click on sendBtn with a recipient no Peer entry exists for
ClickUnknown(b) ==
    /\ sock[b] = "open"
    /\ events < MaxEvents
    /\ \E recipientId \in Ids :
        /\ recipientId \notin DOMAIN peers[b]
        /\ HasRoom(toServer, b)
        /\ toServer' = Push(toServer, b,
                            [type |-> "getPublicKey", for |-> recipientId])
        /\ clicked' = [clicked EXCEPT ![b][recipientId] = @ + 1]
    /\ events' = events + 1
    /\ UNCHANGED <<closedIds, sent>>
    /\ UNCHANGED <<relayVars, toClient, pageVars>>

\* click on sendBtn with a recipient of a Peer entry: sendMessage(recipientId)
ClickKnown(b) ==
    /\ sock[b] = "open"
    /\ events < MaxEvents
    /\ \E recipientId \in Ids :
        /\ recipientId \in DOMAIN peers[b]
        /\ sendMessage(b, recipientId, peers[b], pending[b])
        /\ clicked' = [clicked EXCEPT ![b][recipientId] = @ + 1]
    /\ events' = events + 1
    /\ UNCHANGED <<closedIds, sent>>
    /\ UNCHANGED <<relayVars, toServer, toClient, sessionId, myECDHKeyPair,
                   peers, messageInput, messages>>

(***************************************************************************)
(* The raw peer.                                                           *)
(***************************************************************************)
\* the key the raw peer shares with page 1
RawKey == deriveSharedKey(PrivateKeyOf(RawConn), PublicKeyOf(1))

\* envelopes the raw peer can build: a text sealed under RawKey, the same
\* with the iv altered, and bytes it made up
RawEnvelopes ==
    { encryptWithKey(RawKey, 1, 1),
      [encryptWithKey(RawKey, 1, 1) EXCEPT !.iv = 0],
      [iv |-> 1, data |-> CorruptData] }

\* the session id the raw peer addresses; who holds it, if anyone, is up to
\* generateSessionId
RawTargets == {1}

RawPayloads ==
    {[type |-> "publicKey", key |-> k] :
        k \in {exportPublicKey(PublicKeyOf(RawConn)), Malformed}}
    \cup {[type |-> "getPublicKey", for |-> i] : i \in RawTargets}
    \cup {[type |-> "message", to |-> i, ciphertext |-> e] :
            i \in RawTargets, e \in RawEnvelopes}
    \cup {[type |-> "ping"], [notJson |-> TRUE]}

RawSend ==
    /\ sock[RawConn] = "open"
    /\ events < MaxEvents
    /\ HasRoom(toServer, RawConn)
    /\ \E payload \in RawPayloads :
        toServer' = Push(toServer, RawConn, payload)
    /\ events' = events + 1
    /\ UNCHANGED <<closedIds, clicked, sent>>
    /\ UNCHANGED <<relayVars, toClient, pageVars>>

\* the raw peer reads what the relay sent it
RawReceive ==
    /\ sock[RawConn] = "open"
    /\ toClient[RawConn] # <<>>
    /\ toClient' = Pop(toClient, RawConn)
    /\ UNCHANGED <<relayVars, toServer, pageVars, events, closedIds, clicked, sent>>

(***************************************************************************)
(* The specification.                                                      *)
(***************************************************************************)
Relay(c) ==
    \/ Connection(c)
    \/ RelayPublicKey(c)
    \/ RelayGetPublicKey(c)
    \/ RelayForward(c)
    \/ RelayIgnore(c)
    \/ Close(c)

Page(b) ==
    \/ OnInit(b)
    \/ ResumeGenerateKey(b)
    \/ ResumeExportKey(b)
    \/ OnPublicKey(b)
    \/ ResumeDerivePeer(b)
    \/ OnMessage(b)
    \/ ResumeDeriveSender(b)
    \/ ResumeDecrypt(b)
    \/ ResumeSend(b)

User(b) ==
    \/ UserType(b)
    \/ ClickUnknown(b)
    \/ ClickKnown(b)

Next ==
    \/ \E c \in Conns : Relay(c)
    \/ \E b \in Browsers : Page(b)
    \/ \E b \in Browsers : User(b)
    \/ RawSend
    \/ RawReceive

Spec == Init /\ [][Next]_vars

(***************************************************************************)
(* Properties.                                                             *)
(***************************************************************************)
Open(c) == sock[c] = "open"

\* page b has run ws.send of its publicKey payload
Published(b) ==
    /\ Open(b)
    /\ myECDHKeyPair[b] # Undefined
    /\ \A task \in Suspended(b) : task.k # "exportKey"

\* C1: in every reachable state no two open connections have the same
\* session id.
C1_LiveIdsDistinct ==
    \A c1, c2 \in Conns :
        (c1 # c2 /\ Open(c1) /\ Open(c2)) => connId[c1] # connId[c2]

\* pages a and b each hold a Peer entry for the other's session id
HoldEachOther(a, b) ==
    /\ a # b
    /\ Published(a) /\ Published(b)
    /\ connId[b] \in DOMAIN peers[a]
    /\ connId[a] \in DOMAIN peers[b]

\* the Peer entries a and b hold for each other were derived from the other's
\* own public key
DerivedFromEachOther(a, b) ==
    /\ peers[a][connId[b]].publicKey = myECDHKeyPair[b].publicKey
    /\ peers[b][connId[a]].publicKey = myECDHKeyPair[a].publicKey

\* C2, as stated: whenever two pages that have published their keys hold a
\* Peer entry for each other's session id, the two shared keys are equal.
C2_SharedKeysEqual ==
    \A a, b \in Browsers :
        HoldEachOther(a, b) =>
            peers[a][connId[b]].sharedKey = peers[b][connId[a]].sharedKey

\* C2, amended: whenever two pages that have published their keys hold a Peer
\* entry for each other's session id and each entry was derived from the
\* other page's public key, the two shared keys are equal.
C2_SharedKeysEqualWhenDerivedFromEachOther ==
    \A a, b \in Browsers :
        (HoldEachOther(a, b) /\ DerivedFromEachOther(a, b)) =>
            peers[a][connId[b]].sharedKey = peers[b][connId[a]].sharedKey

\* two pages with different ids hold entries derived from each other's key
C2_Witness ==
    \E a, b \in Browsers :
        /\ HoldEachOther(a, b)
        /\ DerivedFromEachOther(a, b)
        /\ connId[a] # connId[b]

(***************************************************************************)
(* Steps of the relay, as seen in a pair of states.                        *)
(***************************************************************************)
\* the relay's message callback of connection c runs on the head of its queue
Handles(c) ==
    /\ Receiving(c)
    /\ sock'[c] = "open"
    /\ toServer'[c] = Tail(toServer[c])

\* the head of c's queue is a JSON payload of the given type
HeadIs(c, type) ==
    IF "type" \in DOMAIN Head(toServer[c])
    THEN Head(toServer[c]).type = type
    ELSE FALSE

\* the step consumes the head of c's queue and changes nothing else
OnlyConsumes(c) ==
    /\ toServer' = [toServer EXCEPT ![c] = Tail(@)]
    /\ UNCHANGED <<clients, sock, connId, toClient, pageVars, events, closedIds, clicked, sent>>

\* the public key stored for session id, absent when there is none
StoredKey(id) ==
    IF id \in DOMAIN clients THEN clients[id].publicKey ELSE Undefined

\* C4: a forward-message to a registered id P handled on a connection with
\* session id S makes the relay send exactly one message, to the connection
\* registered under P only, with from = S, the envelope unchanged and the key
\* stored for S (absent if none); the registry is unchanged and the payload is
\* consumed, so it is delivered once.
C4_ForwardToRegistered ==
    [][\A c \in Conns :
        (Handles(c) /\ HeadIs(c, "message")
                    /\ Head(toServer[c]).to \in DOMAIN clients) =>
            /\ toClient' = [toClient EXCEPT
                   ![clients[Head(toServer[c]).to].socket] = Append(@,
                       [type |-> "message", from |-> connId[c],
                        ciphertext |-> Head(toServer[c]).ciphertext,
                        senderPublicKey |-> StoredKey(connId[c])])]
            /\ toServer' = [toServer EXCEPT ![c] = Tail(@)]
            /\ UNCHANGED <<clients, sock, connId>>]_vars

\* a message forwarded from another session, with the sender's key attached,
\* is on its way to a connection
C4_Witness ==
    \E d \in Conns : \E i \in 1..Len(toClient[d]) :
        /\ toClient[d][i].type = "message"
        /\ toClient[d][i].from # connId[d]
        /\ toClient[d][i].senderPublicKey # Undefined

\* C5: a forward-message to an id that is not in the registry is consumed and
\* changes nothing else: nothing is sent to any connection, the registry is
\* unchanged and the sender's connection stays open with the rest of its queue.
C5_ForwardToUnknown ==
    [][\A c \in Conns :
        (Handles(c) /\ HeadIs(c, "message")
                    /\ Head(toServer[c]).to \notin DOMAIN clients) =>
            OnlyConsumes(c)]_vars

\* the relay is about to handle a forward-message to an unregistered id
C5_Witness ==
    \E c \in Conns :
        /\ Receiving(c)
        /\ HeadIs(c, "message")
        /\ Head(toServer[c]).to \notin DOMAIN clients
        /\ ENABLED RelayForward(c)

\* connection d is sent a public-key-response in this step
GainsResponse(d) ==
    /\ Len(toClient'[d]) > Len(toClient[d])
    /\ toClient'[d][Len(toClient'[d])].type = "publicKey"

\* C6: a request-public-key for a session that is absent or has published no
\* key is consumed and changes nothing else (no message to anyone, registry
\* unchanged); and a public-key-response is only ever sent in the step that
\* handles a request of the receiving connection for a session that has a
\* stored key at that moment, so an earlier request is never answered later.
C6_RequestWithoutKey ==
    [][/\ \A c \in Conns :
            (Handles(c) /\ HeadIs(c, "getPublicKey")
                        /\ StoredKey(Head(toServer[c]).for) = Undefined) =>
                OnlyConsumes(c)
       /\ \A d \in Conns :
            GainsResponse(d) =>
                /\ Handles(d)
                /\ HeadIs(d, "getPublicKey")
                /\ StoredKey(Head(toServer[d]).for) # Undefined
                /\ toClient'[d][Len(toClient'[d])].for = Head(toServer[d]).for
      ]_vars

\* the relay is about to handle a request for a registered session that has
\* published no key
C6_Witness ==
    \E c \in Conns :
        /\ Receiving(c)
        /\ HeadIs(c, "getPublicKey")
        /\ Head(toServer[c]).for \in DOMAIN clients
        /\ StoredKey(Head(toServer[c]).for) = Undefined
        /\ ENABLED RelayGetPublicKey(c)

\* C7: a request-public-key for a registered session P with a published key
\* makes the relay send exactly one public-key-response, to the requesting
\* connection only, with for = P and the key stored for P at that moment; the
\* registry is unchanged.
C7_RequestWithKey ==
    [][\A c \in Conns :
        (Handles(c) /\ HeadIs(c, "getPublicKey")
                    /\ StoredKey(Head(toServer[c]).for) # Undefined) =>
            /\ toClient' = [toClient EXCEPT ![c] = Append(@,
                   [type |-> "publicKey", for |-> Head(toServer[c]).for,
                    key |-> clients[Head(toServer[c]).for].publicKey])]
            /\ toServer' = [toServer EXCEPT ![c] = Tail(@)]
            /\ UNCHANGED <<clients, sock, connId>>]_vars

\* a public-key-response for another session than the requester's is on its
\* way to the requester
C7_Witness ==
    \E d \in Conns : \E i \in 1..Len(toClient[d]) :
        /\ toClient[d][i].type = "publicKey"
        /\ toClient[d][i].for # connId[d]

\* C10: a payload that fails to parse or has an unknown kind is consumed and
\* changes nothing else: the registry is unchanged, nothing is sent, the
\* connection stays open and the payloads queued behind it, like those of
\* every other connection, are still there to be handled.
C10_MalformedIgnored ==
    [][\A c \in Conns :
        (Handles(c) /\ ~HeadIs(c, "publicKey") /\ ~HeadIs(c, "getPublicKey")
                    /\ ~HeadIs(c, "message")) =>
            OnlyConsumes(c)]_vars

\* the relay is about to handle a payload that is no JSON
C10_Witness ==
    \E c \in Conns :
        /\ Receiving(c)
        /\ "type" \notin DOMAIN Head(toServer[c])
        /\ clients # EmptyMap
        /\ ENABLED RelayIgnore(c)

(***************************************************************************)
(* What may appear on the wire and in the registry.                        *)
(***************************************************************************)
\* strings that encode a public key, or nothing
WireKeys == PublicKeyStrings \cup {Malformed}

\* envelopes sealed by encryptWithKey under a shared key, and the raw peer's
SealedEnvelopes ==
    {encryptWithKey(deriveSharedKey(PrivateKeyOf(a), PublicKeyOf(b)), text, iv) :
        a \in Conns, b \in Conns, text \in Texts, iv \in Ivs}

Envelopes == SealedEnvelopes \cup RawEnvelopes

\* payloads made of session ids, public keys and envelopes only
ClientPayloads ==
    {[type |-> "publicKey", key |-> k] : k \in WireKeys}
    \cup {[type |-> "getPublicKey", for |-> i] : i \in Ids}
    \cup {[type |-> "message", to |-> i, ciphertext |-> e] :
            i \in Ids, e \in Envelopes}
    \cup {[type |-> "ping"], [notJson |-> TRUE]}

RelayPayloads ==
    {[type |-> "init", sessionId |-> i] : i \in Ids}
    \cup {[type |-> "publicKey", for |-> i, key |-> k] :
            i \in Ids, k \in WireKeys}
    \cup {[type |-> "message", from |-> i, ciphertext |-> e,
           senderPublicKey |-> k] :
            i \in Ids, e \in Envelopes, k \in WireKeys \cup {Undefined}}

RegistryEntries ==
    [id : Ids, socket : Conns, publicKey : WireKeys \cup {Undefined}]

\* C8: in every reachable state every payload in flight and every registry
\* entry is made of session ids, public-key strings and sealed envelopes only,
\* and the only key a page has put on the wire is its own public key: no
\* private key, no shared key and no plaintext is on the wire or in the
\* registry.
C8_OnlyIdsKeysEnvelopes ==
    /\ \A c \in Conns : \A i \in 1..Len(toServer[c]) :
        toServer[c][i] \in ClientPayloads
    /\ \A c \in Conns : \A i \in 1..Len(toClient[c]) :
        toClient[c][i] \in RelayPayloads
    /\ \A id \in DOMAIN clients : clients[id] \in RegistryEntries
    /\ \A b \in Browsers : \A i \in 1..Len(toServer[b]) :
        toServer[b][i].type = "publicKey" =>
            toServer[b][i].key = exportPublicKey(PublicKeyOf(b))

\* a page has published its key and a message it sealed is on the wire
C8_Witness ==
    \E b \in Browsers :
        /\ StoredKey(connId[b]) = exportPublicKey(PublicKeyOf(b))
        /\ \E i \in 1..Len(toServer[b]) : toServer[b][i].type = "message"

(***************************************************************************)
(* What a page displays.                                                   *)
(***************************************************************************)
\* C9: a page adds an inbound line for sender id S only in a step that
\* settles a decryption of an envelope from S whose authentication succeeds
\* under the key taken from the Peer entry for S, and the text of the line is
\* the plaintext that was sealed; a decryption is only ever started with the
\* shared key of the page's Peer entry for the sender.  An envelope sealed
\* under another key or altered in iv or data adds no line.
C9_DisplayOnlyAuthenticated ==
    [][\A b \in Browsers :
        /\ \A line \in messages'[b] \ messages[b] :
            \E task \in Suspended(b) :
                /\ task.k = "decrypt"
                /\ pending'[b] = pending[b] (-) SetToBag({task})
                /\ task.from = line.from
                /\ task.ciphertext.data.k = task.key
                /\ task.ciphertext.data.n = task.ciphertext.iv
                /\ task.ciphertext.data.p = line.text
        /\ \A task \in BagToSet(pending'[b]) \ Suspended(b) :
            task.k = "decrypt" =>
                /\ task.from \in DOMAIN peers'[b]
                /\ task.key = peers'[b][task.from].sharedKey
      ]_vars

\* a page has displayed a line of a sender that is still connected
C9_Witness ==
    \E b \in Browsers : \E line \in messages[b] :
        \E c \in Conns : c # b /\ Open(c) /\ connId[c] = line.from

\* the decryption of an envelope that does not authenticate is suspended
C9_TamperedReachesDecrypt ==
    \E b \in Browsers : \E task \in Suspended(b) :
        /\ task.k = "decrypt"
        /\ ~DecryptOK(task.key, task.ciphertext)

(***************************************************************************)
(* Two pages that connect and stay connected, under fair scheduling: the   *)
(* event loops of the relay and of every page run each callback that is    *)
(* ready.  Connects and the users owe nothing.  Every behaviour of PairSpec *)
(* is a behaviour of Spec in which no connection closes and the raw peer   *)
(* stays away.                                                             *)
(***************************************************************************)
RelayMessage(b) ==
    \/ RelayPublicKey(b)
    \/ RelayGetPublicKey(b)
    \/ RelayForward(b)

PairNext ==
    \/ \E b \in Browsers : Connection(b)
    \/ \E b \in Browsers : RelayMessage(b)
    \/ \E b \in Browsers : Page(b)
    \/ \E b \in Browsers : User(b)

Fairness ==
    /\ \A b \in Browsers : WF_vars(RelayMessage(b))
    /\ \A b \in Browsers : WF_vars(Page(b))

PairSpec == Init /\ [][PairNext]_vars /\ Fairness

\* page b has asked the relay for the key of session id
Requested(b, id) ==
    \E i \in 1..Len(toServer[b]) :
        toServer[b][i] = [type |-> "getPublicKey", for |-> id]

\* C3: if pages a and b stay connected, a has published its key, and b's
\* user has asked to send the non-empty text in the input field to a's id
\* while b holds no Peer entry for it, then a eventually displays that text
\* as coming from b's id.
C3_EndToEndDelivery ==
    \A a, b \in Browsers : \A text \in Texts :
        ( /\ a # b
          /\ Open(a) /\ Open(b)
          /\ StoredKey(connId[a]) = exportPublicKey(PublicKeyOf(a))
          /\ clients[connId[a]].socket = a
          /\ connId[a] # connId[b]
          /\ Requested(b, connId[a])
          /\ connId[a] \notin DOMAIN peers[b]
          /\ messageInput[b] = text )
        ~> ( \/ ~Open(a)
             \/ ~Open(b)
             \/ [from |-> connId[b], text |-> text] \in messages[a] )

(***************************************************************************)
(* The life of a connection.                                               *)
(***************************************************************************)
\* connection d is sent a payload of the given type in this step
Gains(d, type) ==
    /\ Len(toClient'[d]) > Len(toClient[d])
    /\ toClient'[d][Len(toClient'[d])].type = type

\* page b's ws.onmessage takes the head of its queue in this step
Takes(b) ==
    /\ Delivered(b)
    /\ sock'[b] = "open"
    /\ toClient'[b] = Tail(toClient[b])

\* C11: the relay sends init to a connection in the step that accepts it and
\* in no other step, as the first payload of the connection, carrying the id
\* the connection is registered under; a connection is accepted once; nothing
\* is queued for a connection that is not accepted; and a page takes a
\* public-key-response or a forwarded message only after it took its init,
\* whose id is the id of its connection.
C11_InitOnceAndFirst ==
    [][\A d \in Conns :
        /\ (sock[d] = "idle" /\ sock'[d] # "idle") =>
              /\ sock'[d] = "open"
              /\ toClient'[d] = <<[type |-> "init", sessionId |-> connId'[d]]>>
              /\ connId'[d] \in DOMAIN clients'
              /\ clients'[connId'[d]].socket = d
        /\ Gains(d, "init") => sock[d] = "idle"
        /\ sock[d] # "idle" => sock'[d] # "idle"
        /\ sock'[d] = "idle" => toClient'[d] = <<>>
        /\ (d \in Browsers /\ Takes(d)) =>
              IF Head(toClient[d]).type = "init"
              THEN /\ sessionId[d] = NoId
                   /\ sessionId'[d] = connId[d]
              ELSE sessionId[d] = connId[d]
      ]_vars

\* a page that took its init has a later payload of the relay waiting
C11_Witness ==
    \E b \in Browsers :
        /\ Open(b)
        /\ sessionId[b] = connId[b]
        /\ toClient[b] # <<>>
        /\ Head(toClient[b]).type # "init"

\* the registry holds, under the id of connection c, an entry of c
Registered(c) ==
    /\ connId[c] \in DOMAIN clients
    /\ clients[connId[c]].socket = c

\* C12: as long as a connection is open the registry holds an entry under its
\* session id and the entry's connection is that connection; and an entry
\* leaves the registry only in a step that closes the connection it holds.
C12_OpenKeepsSession ==
    /\ [](\A c \in Conns : Open(c) => Registered(c))
    /\ [][\A id \in DOMAIN clients :
            id \notin DOMAIN clients' =>
                /\ sock[clients[id].socket] = "open"
                /\ sock'[clients[id].socket] = "closed"]_vars

\* the relay's publicKey case stores the key of a payload without it
AfterPublish(c) ==
    IF connId[c] \in DOMAIN clients
    THEN [clients EXCEPT ![connId[c]].publicKey = Head(toServer[c]).key]
    ELSE clients

\* C13: a publish-public-key handled on a connection with session id S sets
\* the key stored under S to the new key, whatever was stored before, changes
\* no other entry and sends nothing; when S is not in the registry the
\* registry is unchanged; either way the connection stays open and only the
\* payload is consumed.
C13_PublishStoresKey ==
    [][\A c \in Conns :
        (Handles(c) /\ HeadIs(c, "publicKey")) =>
            /\ clients' = AfterPublish(c)
            /\ toServer' = [toServer EXCEPT ![c] = Tail(@)]
            /\ UNCHANGED <<sock, connId, toClient, pageVars, events, closedIds, clicked, sent>>]_vars

\* the relay is about to handle a publish that replaces another stored key
C13_Witness ==
    \E c \in Conns :
        /\ Receiving(c)
        /\ HeadIs(c, "publicKey")
        /\ StoredKey(connId[c]) # Undefined
        /\ StoredKey(connId[c]) # Head(toServer[c]).key
        /\ ENABLED RelayPublicKey(c)

\* the relay is about to handle a publish of a session that is not registered
C13_PublishOfMissingSession ==
    \E c \in Conns :
        /\ Receiving(c)
        /\ HeadIs(c, "publicKey")
        /\ connId[c] \notin DOMAIN clients
        /\ ENABLED RelayPublicKey(c)

\* the keys the peer of connection c publishes: a page its own public key,
\* the raw peer whatever it likes
KeysPublishedOn(c) ==
    IF c \in Browsers
    THEN {exportPublicKey(PublicKeyOf(c))}
    ELSE {p.key : p \in {q \in RawPayloads :
                             IF IsJson(q) THEN q.type = "publicKey" ELSE FALSE}}

\* C19: in every reachable state the public key of a registry entry is a key
\* that was published over the connection of that entry.
C19_KeyOfEntryConnection ==
    \A id \in DOMAIN clients :
        clients[id].publicKey # Undefined =>
            clients[id].publicKey \in KeysPublishedOn(clients[id].socket)

\* the head of c's queue is a forward-message or a request-public-key, and
\* this is the session id it names
Named(c) ==
    IF HeadIs(c, "message") THEN Head(toServer[c]).to
    ELSE IF HeadIs(c, "getPublicKey") THEN Head(toServer[c]).for
    ELSE NoId

\* what C14 says of every state and of every step but the handling of a
\* payload that names a closed session: every registry entry holds an open
\* connection, the step that closes a connection leaves no entry under its
\* id, and a public-key-response or a forwarded message is only ever sent to
\* an open connection
ClosedSessionRemoved ==
    /\ [](\A id \in DOMAIN clients : Open(clients[id].socket))
    /\ [][\A c \in Conns :
            /\ (sock[c] = "open" /\ sock'[c] = "closed") =>
                    connId[c] \notin DOMAIN clients'
            /\ (Gains(c, "publicKey") \/ Gains(c, "message")) =>
                    (sock[c] = "open" /\ sock'[c] = "open")]_vars

\* C14, as stated: after a connection closes its session is removed, nothing
\* is sent to a closed connection, and a forward-message or request-public-key
\* that names the id of a closed session and is handled after the close is a
\* routing miss: it is consumed and changes nothing else.
C14_ClosedSessionIsMiss ==
    /\ ClosedSessionRemoved
    /\ [][\A c \in Conns :
            (Handles(c) /\ Named(c) \in closedIds) => OnlyConsumes(c)]_vars

\* C14, amended: as above, the routing miss holding for as long as no later
\* connection has been registered under the id of the closed session.
C14_ClosedSessionIsMissUntilIdReused ==
    /\ ClosedSessionRemoved
    /\ [][\A c \in Conns :
            (Handles(c) /\ Named(c) \in closedIds
                        /\ Named(c) \notin DOMAIN clients) =>
                OnlyConsumes(c)]_vars

\* the relay is about to handle a forward-message that names the id of a
\* closed session no connection is registered under
C14_Witness ==
    \E c \in Conns :
        /\ Receiving(c)
        /\ HeadIs(c, "message")
        /\ Named(c) \in closedIds
        /\ Named(c) \notin DOMAIN clients
        /\ ENABLED RelayForward(c)

(***************************************************************************)
(* The Peer entries of a page.                                             *)
(***************************************************************************)
\* C15: once a page holds a Peer entry for a remote id, the entry (public key
\* and shared key) is neither changed nor removed while the page lives,
\* whatever public-key-responses and inbound messages arrive afterwards.
C15_PeerEntryNeverChanged ==
    [][\A b \in Browsers :
        sock'[b] = "open" =>
            \A id \in DOMAIN peers[b] :
                /\ id \in DOMAIN peers'[b]
                /\ peers'[b][id] = peers[b][id]]_vars

\* the shared key page b agrees with the owner of an encoded public key
AgreedWith(b, base64Key) ==
    [type |-> "secret",
     agreed |-> {myECDHKeyPair[b].privateKey.of, base64Key.b64[2]}]

\* page b resumes the suspended callback `task` in this step
Resumes(b, task) ==
    /\ task \in Suspended(b)
    /\ sock'[b] = "open"
    /\ CopiesIn(task, pending'[b]) < CopiesIn(task, pending[b])

\* C16: a page that has its key pair and takes a message carrying the
\* sender's valid public key sends no key request and goes on to decrypt the
\* envelope with the key agreed with that embedded key: with no Peer entry
\* for the sender it derives from the embedded key, stores the entry made of
\* it and decrypts with the entry's shared key; with a Peer entry it decrypts
\* with a key that opens the envelope or else with the one agreed with the
\* embedded key, so it never gives up before the embedded key was tried.
C16_BootstrapFromEmbeddedKey ==
    [][\A b \in Browsers :
        /\ ( /\ Takes(b)
             /\ Head(toClient[b]).type = "message"
             /\ myECDHKeyPair[b] # Undefined
             /\ ImportOK(Head(toClient[b]).senderPublicKey) ) =>
                LET msg == Head(toClient[b]) IN
                /\ toServer' = toServer
                /\ \E task \in BagToSet(pending'[b]) :
                    /\ pending'[b] = pending[b] (+) SetToBag({task})
                    /\ task.from = msg.from
                    /\ task.ciphertext = msg.ciphertext
                    /\ \/ /\ task.k = "deriveSender"
                          /\ task.key = msg.senderPublicKey
                          /\ msg.from \notin DOMAIN peers[b]
                       \/ /\ task.k = "decrypt"
                          /\ \/ DecryptOK(task.key, msg.ciphertext)
                             \/ task.key = AgreedWith(b, msg.senderPublicKey)
        /\ \A task \in Suspended(b) :
            ( /\ Resumes(b, task)
              /\ task.k = "deriveSender"
              /\ ImportOK(task.key) ) =>
                /\ peers'[b] = MapSet(peers[b], task.from,
                       [publicKey |-> [type |-> "public", of |-> task.key.b64[2]],
                        sharedKey |-> AgreedWith(b, task.key)])
                /\ pending'[b] = (pending[b] (-) SetToBag({task})) (+)
                       SetToBag({[k |-> "decrypt", from |-> task.from,
                                  key |-> AgreedWith(b, task.key),
                                  ciphertext |-> task.ciphertext]})
                /\ toServer' = toServer
      ]_vars

\* page b runs ws.send of a forward-message in this step
SendsMessage(b) ==
    /\ Len(toServer'[b]) > Len(toServer[b])
    /\ toServer'[b][Len(toServer'[b])].type = "message"

\* C17: a page sends a forward-message only after it has sent its public key,
\* hence whenever the relay forwards a message of a page that holds the
\* registry entry of its id, a key is stored for that id and goes out as
\* senderPublicKey.
C17_PublishBeforeSend ==
    [][\A b \in Browsers :
        /\ SendsMessage(b) => Published(b)
        /\ (Handles(b) /\ HeadIs(b, "message") /\ Registered(b)
                       /\ Head(toServer[b]).to \in DOMAIN clients) =>
                StoredKey(connId[b]) # Undefined]_vars

\* page b's state apart from its suspended callbacks is left as it is
PageKeeps(b) ==
    /\ peers'[b] = peers[b]
    /\ messages'[b] = messages[b]
    /\ myECDHKeyPair'[b] = myECDHKeyPair[b]
    /\ sessionId'[b] = sessionId[b]
    /\ messageInput'[b] = messageInput[b]
    /\ toServer'[b] = toServer[b]

\* C18: a message from a sender without Peer entry is dropped when the page
\* has no key pair yet (the callback ends at once) or when the embedded key is
\* missing or malformed (the callback ends when the import is rejected): no
\* Peer entry is created, nothing is shown, nothing is sent, and the page goes
\* on with the rest of its queue and its other callbacks untouched.
C18_UndecryptableDropped ==
    [][\A b \in Browsers :
        /\ ( /\ Takes(b)
             /\ Head(toClient[b]).type = "message"
             /\ Head(toClient[b]).from \notin DOMAIN peers[b] ) =>
                LET msg == Head(toClient[b]) IN
                /\ PageKeeps(b)
                /\ myECDHKeyPair[b] = Undefined => pending'[b] = pending[b]
                /\ (myECDHKeyPair[b] # Undefined
                        /\ msg.senderPublicKey \notin PublicKeyStrings) =>
                      pending'[b] = pending[b] (+) SetToBag({
                          [k |-> "deriveSender", from |-> msg.from,
                           key |-> msg.senderPublicKey,
                           ciphertext |-> msg.ciphertext]})
        /\ \A task \in Suspended(b) :
            ( /\ Resumes(b, task)
              /\ task.k = "deriveSender"
              /\ task.key \notin PublicKeyStrings ) =>
                /\ PageKeeps(b)
                /\ toClient'[b] = toClient[b]
                /\ pending'[b] = pending[b] (-) SetToBag({task})
      ]_vars

\* a page is about to have the import of a missing or malformed embedded key
\* rejected
C18_Witness ==
    \E b \in Browsers : \E task \in Suspended(b) :
        /\ task.k = "deriveSender"
        /\ task.key \notin PublicKeyStrings
        /\ task.from \notin DOMAIN peers[b]
        /\ ENABLED ResumeDeriveSender(b)

\* a page without key pair is about to take a message
C18_MessageBeforeKeyPair ==
    \E b \in Browsers :
        /\ Delivered(b)
        /\ Head(toClient[b]).type = "message"
        /\ myECDHKeyPair[b] = Undefined
        /\ ENABLED OnMessage(b)

\* the embedded key a page is about to import is malformed
C18_MalformedEmbeddedKey ==
    \E b \in Browsers : \E task \in Suspended(b) :
        /\ task.k = "deriveSender"
        /\ task.key = Malformed

=============================================================================
